---- MODULE Spec2Model ----
(***************************************************************************)
(* Model of the C ABI of rust-core/src/lib.rs (lindos).                    *)
(*                                                                         *)
(* Text.  A Rust str / C string is modelled by its run-length encoding: a  *)
(* sequence of runs [ch |-> c, n |-> k], k >= 1, adjacent runs holding     *)
(* different characters (so equal texts have equal encodings).  A          *)
(* character is named by a one-character string, "U4E16" names the CJK     *)
(* character U+4E16 (three bytes in UTF-8) and "xFF" names the byte 0xFF,  *)
(* which no well-formed UTF-8 sequence contains.                           *)
(*                                                                         *)
(* Memory.  live is the set of addresses of the C strings the library has  *)
(* allocated (CString::into_raw) and not yet taken back                    *)
(* (CString::from_raw); callerLive the allocations the caller made for its *)
(* own message; owned the library buffers the caller holds and has not     *)
(* released.  The caller follows the documented contract: it releases      *)
(* only null or a buffer it holds.                                         *)
(*                                                                         *)
(* Calls are made one at a time (DEBUG_ENABLED is a static mut, written    *)
(* without synchronisation, so only sequential calls have defined          *)
(* behaviour); ret is what the last call returned (and what the caller     *)
(* read from the returned buffer), probe a remembered earlier call used    *)
(* to compare two calls.                                                   *)
(***************************************************************************)
EXTENDS Integers, Sequences, FiniteSets

VARIABLES message, DEBUG_ENABLED, live, callerLive, owned, ret, probe

vars == <<message, DEBUG_ENABLED, live, callerLive, owned, ret, probe>>

(* ------------------------------ bounds --------------------------------- *)

\* longest caller message, in runs of one repeated character
MaxRuns == 2
\* most library buffers live at once
MaxBufs == 2
\* longest caller message, in runs, where two calls are compared
HistoryRuns == 1

(* --------------------------- program constants ------------------------- *)

\* `input.len() > 1000`
MAX_LEN == 1000
\* the null pointer
NULL == 0

(* ------------------------------- text ---------------------------------- *)

\* char::is_whitespace, as str::trim uses it
is_whitespace(c) == c = " "

\* char::len_utf8: the bytes a character takes in a str
len_utf8(c) == IF c = "U4E16" THEN 3 ELSE 1

\* a run appended to an encoded text (String::push for a repeated char)
Push(t, r) ==
    IF r.n = 0 THEN t
    ELSE IF t # <<>> /\ t[Len(t)].ch = r.ch
         THEN [t EXCEPT ![Len(t)].n = @ + r.n]
         ELSE Append(t, r)

RECURSIVE PushAll(_, _)
PushAll(t, s) == IF s = <<>> THEN t ELSE PushAll(Push(t, Head(s)), Tail(s))

\* String::push_str: concatenation
push_str(t, s) == PushAll(t, s)

\* a string literal, given character by character
Str(cs) == PushAll(<<>>, [i \in 1..Len(cs) |-> [ch |-> cs[i], n |-> 1]])

RECURSIVE str_len(_)
\* str::len: the length in BYTES of the UTF-8 encoding
str_len(t) == IF t = <<>> THEN 0 ELSE Head(t).n * len_utf8(Head(t).ch) + str_len(Tail(t))

RECURSIVE chars_count(_)
\* str::chars().count(): the length in code points
chars_count(t) == IF t = <<>> THEN 0 ELSE Head(t).n + chars_count(Tail(t))

RECURSIVE trim_start(_)
trim_start(t) ==
    IF t # <<>> /\ is_whitespace(Head(t).ch) THEN trim_start(Tail(t)) ELSE t

RECURSIVE trim_end(_)
trim_end(t) ==
    IF t # <<>> /\ is_whitespace(t[Len(t)].ch)
    THEN trim_end(SubSeq(t, 1, Len(t) - 1)) ELSE t

\* str::trim
trim(t) == trim_end(trim_start(t))

\* str::is_empty
is_empty(t) == t = <<>>

(* --------------------------- string literals --------------------------- *)

GREETING == Str(<<"H", "e", "l", "l", "o", " ", "f", "r", "o", "m", " ", "R", "u", "s", "t", " ", "c", "o", "r", "e", "!">>)
YOU_SAID == Str(<<"Y", "o", "u", " ", "s", "a", "i", "d", ":", " ">>)
TOO_LONG == Str(<<"M", "e", "s", "s", "a", "g", "e", " ", "t", "o", "o", " ", "l", "o", "n", "g">>)
UM_NULL == Str(<<"E", "r", "r", "o", "r", ":", " ", "N", "o", " ", "m", "e", "s", "s", "a", "g", "e", " ", "p", "r", "o", "v", "i", "d", "e", "d">>)
UM_UTF8 == Str(<<"E", "r", "r", "o", "r", ":", " ", "M", "e", "s", "s", "a", "g", "e", " ", "c", "o", "n", "t", "a", "i", "n", "s", " ", "i", "n", "v", "a", "l", "i", "d", " ", "c", "h", "a", "r", "a", "c", "t", "e", "r", "s">>)
UM_EMPTY == Str(<<"E", "r", "r", "o", "r", ":", " ", "M", "e", "s", "s", "a", "g", "e", " ", "c", "a", "n", "n", "o", "t", " ", "b", "e", " ", "e", "m", "p", "t", "y">>)
UM_FAIL == Str(<<"E", "r", "r", "o", "r", ":", " ", "F", "a", "i", "l", "e", "d", " ", "t", "o", " ", "p", "r", "o", "c", "e", "s", "s", " ", "m", "e", "s", "s", "a", "g", "e">>)
EM_NULL == Str(<<"N", "o", " ", "m", "e", "s", "s", "a", "g", "e", " ", "p", "r", "o", "v", "i", "d", "e", "d">>)
EM_UTF8 == Str(<<"M", "e", "s", "s", "a", "g", "e", " ", "c", "o", "n", "t", "a", "i", "n", "s", " ", "i", "n", "v", "a", "l", "i", "d", " ", "c", "h", "a", "r", "a", "c", "t", "e", "r", "s">>)
EM_EMPTY == Str(<<"M", "e", "s", "s", "a", "g", "e", " ", "c", "a", "n", "n", "o", "t", " ", "b", "e", " ", "e", "m", "p", "t", "y">>)
EM_FAIL == Str(<<"F", "a", "i", "l", "e", "d", " ", "t", "o", " ", "p", "r", "o", "c", "e", "s", "s", " ", "m", "e", "s", "s", "a", "g", "e">>)
EM_UNKNOWN == Str(<<"U", "n", "k", "n", "o", "w", "n", " ", "e", "r", "r", "o", "r">>)

(* ------------------------------ errors --------------------------------- *)

\* enum ProcessingError
NullPointer == [kind |-> "NullPointer", detail |-> <<>>]
InvalidUtf8 == [kind |-> "InvalidUtf8", detail |-> <<>>]
EmptyMessage == [kind |-> "EmptyMessage", detail |-> <<>>]
ProcessingFailure(d) == [kind |-> "ProcessingFailure", detail |-> d]

Ok(v) == [ok |-> TRUE, val |-> v]
Err(e) == [ok |-> FALSE, err |-> e]

\* ProcessingError::to_user_message
to_user_message(error) ==
    CASE error.kind = "NullPointer" -> UM_NULL
      [] error.kind = "InvalidUtf8" -> UM_UTF8
      [] error.kind = "EmptyMessage" -> UM_EMPTY
      [] error.kind = "ProcessingFailure" -> UM_FAIL

\* mutant: the codes of InvalidUtf8 and EmptyMessage exchanged
error_code_of_swapped(error) ==
    CASE error.kind = "NullPointer" -> 1
      [] error.kind = "InvalidUtf8" -> 3
      [] error.kind = "EmptyMessage" -> 2
      [] error.kind = "ProcessingFailure" -> 4

\* the `match error` that numbers the errors in RustResult::error
error_code_of(error) ==
    CASE error.kind = "NullPointer" -> 1
      [] error.kind = "InvalidUtf8" -> 2
      [] error.kind = "EmptyMessage" -> 3
      [] error.kind = "ProcessingFailure" -> 4

(* ------------------------------ buffers -------------------------------- *)

\* ffi_support::rust_string_to_c: the text moved into a C string at the
\* address p the allocator hands out
rust_string_to_c(s, p) == [ptr |-> p, text |-> s]

\* RustResult::success
RustResult_success(data, p) ==
    LET c == rust_string_to_c(data, p)
    IN  [success |-> TRUE, data |-> c.ptr, text |-> c.text, error_code |-> 0]

\* mutant: a failure carries a null data pointer and no message
RustResult_error_null(error, p) ==
    [success |-> FALSE, data |-> NULL, text |-> <<>>,
     error_code |-> error_code_of(error)]

\* RustResult::error
RustResult_error(error, p) ==
    LET c == rust_string_to_c(to_user_message(error), p)
    IN  [success |-> FALSE, data |-> c.ptr, text |-> c.text,
         error_code |-> error_code_of(error)]

(* --------------------------- the functions ----------------------------- *)

\* mutant: the limit is off by one
generate_reply_off_by_one(input) ==
    IF is_empty(trim(input)) THEN Ok(GREETING)
    ELSE IF str_len(input) > MAX_LEN + 1 THEN Err(ProcessingFailure(TOO_LONG))
    ELSE Ok(push_str(YOU_SAID, input))

\* mutant: a message of exactly MAX_LEN bytes is rejected
generate_reply_ge(input) ==
    IF is_empty(trim(input)) THEN Ok(GREETING)
    ELSE IF str_len(input) >= MAX_LEN THEN Err(ProcessingFailure(TOO_LONG))
    ELSE Ok(push_str(YOU_SAID, input))

\* mutant: the length is checked before the blank message
generate_reply_length_first(input) ==
    IF str_len(input) > MAX_LEN THEN Err(ProcessingFailure(TOO_LONG))
    ELSE IF is_empty(trim(input)) THEN Ok(GREETING)
    ELSE Ok(push_str(YOU_SAID, input))

\* mutant: a blank message is rejected as EmptyMessage
generate_reply_reject_blank(input) ==
    IF is_empty(trim(input)) THEN Err(EmptyMessage)
    ELSE IF str_len(input) > MAX_LEN THEN Err(ProcessingFailure(TOO_LONG))
    ELSE Ok(push_str(YOU_SAID, input))

\* mutant: the reply depends on the debug flag
generate_reply_debug(input) ==
    IF is_empty(trim(input)) \/ DEBUG_ENABLED THEN Ok(GREETING)
    ELSE IF str_len(input) > MAX_LEN THEN Err(ProcessingFailure(TOO_LONG))
    ELSE Ok(push_str(YOU_SAID, input))

\* generate_reply
generate_reply(input) ==
    IF is_empty(trim(input)) THEN Ok(GREETING)
    ELSE IF str_len(input) > MAX_LEN THEN Err(ProcessingFailure(TOO_LONG))
    ELSE Ok(push_str(YOU_SAID, input))

\* CStr::to_str: the bytes are the text when they are well-formed UTF-8
to_str(bytes) ==
    IF \E i \in 1..Len(bytes) : bytes[i].ch = "xFF" THEN Err(InvalidUtf8) ELSE Ok(bytes)

\* safe_str_from_ptr
safe_str_from_ptr(ptr) ==
    IF ptr.ptr = NULL THEN Err(NullPointer) ELSE to_str(ptr.bytes)

\* mutant: a processing failure returns its detail, not the user message
lindos_process_message_detail(msg, p) ==
    LET conv == safe_str_from_ptr(msg)
        result == IF conv.ok
                  THEN LET reply == generate_reply(conv.val)
                       IN  IF reply.ok THEN reply.val ELSE reply.err.detail
                  ELSE to_user_message(conv.err)
    IN  rust_string_to_c(result, p)

\* lindos_process_message: the returned C string
lindos_process_message(msg, p) ==
    LET conv == safe_str_from_ptr(msg)
        result == IF conv.ok
                  THEN LET reply == generate_reply(conv.val)
                       IN  IF reply.ok THEN reply.val ELSE to_user_message(reply.err)
                  ELSE to_user_message(conv.err)
    IN  rust_string_to_c(result, p)

\* lindos_process_message_safe: the returned RustResult
lindos_process_message_safe(msg, p) ==
    LET input_result == safe_str_from_ptr(msg)
    IN  IF input_result.ok
        THEN LET reply == generate_reply(input_result.val)
             IN  IF reply.ok THEN RustResult_success(reply.val, p)
                 ELSE RustResult_error(reply.err, p)
        ELSE RustResult_error(input_result.err, p)

\* lindos_validate_message
lindos_validate_message(msg) ==
    LET conv == safe_str_from_ptr(msg)
    IN  IF conv.ok
        THEN IF str_len(conv.val) > MAX_LEN THEN 4 ELSE 0
        ELSE error_code_of(conv.err)

\* lindos_error_message: the returned C string
lindos_error_message(error_code, p) ==
    LET m == CASE error_code = 1 -> EM_NULL
               [] error_code = 2 -> EM_UTF8
               [] error_code = 3 -> EM_EMPTY
               [] error_code = 4 -> EM_FAIL
               [] OTHER -> EM_UNKNOWN
    IN  rust_string_to_c(m, p)

\* mutant: the C string is taken back but never dropped
lindos_string_free_forget(h, ptr) == h

\* lindos_string_free: the library's live buffers after the call
lindos_string_free(h, ptr) == IF ptr = NULL THEN h ELSE h \ {ptr}

\* lindos_result_free: the library's live buffers after the call
lindos_result_free(h, data) ==
    IF data # NULL THEN lindos_string_free(h, data) ELSE h

\* lindos_set_debug: the value of DEBUG_ENABLED after the call
lindos_set_debug(enabled) == enabled

(* ------------------------------ inputs --------------------------------- *)

\* the characters (and the ill-formed byte) a caller message is built from
Alphabet == {" ", "a", "U4E16", "xFF"}

\* run lengths: one unit and the first length whose bytes pass MAX_LEN
\* (1001 for a one-byte character, 334 for a three-byte one); for "a" also
\* exactly MAX_LEN; the ill-formed byte once
RunLens(c) ==
    IF c = "xFF" THEN {1}
    ELSE IF c = "a" THEN {1, MAX_LEN, MAX_LEN + 1}
    ELSE {1, MAX_LEN \div len_utf8(c) + 1}

Runs == UNION {{[ch |-> c, n |-> k] : k \in RunLens(c)} : c \in Alphabet}

RECURSIVE TextsOf(_)
\* the encoded texts of exactly k runs
TextsOf(k) ==
    IF k = 0 THEN {<<>>}
    ELSE {Append(q[1], q[2]) :
            q \in {x \in TextsOf(k - 1) \X Runs :
                     x[1] = <<>> \/ x[1][Len(x[1])].ch # x[2].ch}}

\* the address of the caller's own C string
InputAddr == MaxBufs + 1

\* the addresses the library's allocator hands out
LibAddrs == 1..MaxBufs

\* std::ptr::null()
NullHandle == [ptr |-> NULL, bytes |-> <<>>]

\* the message handles a caller passes: null, or a C string of its own
Handles ==
    {NullHandle} \cup
    {[ptr |-> InputAddr, bytes |-> t] : t \in UNION {TextsOf(k) : k \in 0..MaxRuns}}

\* the error codes a caller asks lindos_error_message about
CodeArgs == {0, 1, 2, 3, 4, 999}

(* ------------------------------- state --------------------------------- *)

NoCall == [op |-> "none", arg |-> NULL, success |-> FALSE, error_code |-> 0,
           data |-> NULL, text |-> <<>>]

NoProbe == [op |-> "none", arg |-> NULL, success |-> FALSE, error_code |-> 0,
            text |-> <<>>, debug |-> FALSE]

Init ==
    /\ message \in Handles
    /\ DEBUG_ENABLED = FALSE
    /\ live = {}
    /\ callerLive = IF message.ptr = NULL THEN {} ELSE {message.ptr}
    /\ owned = {}
    /\ ret = NoCall
    /\ probe = NoProbe

(* ------------------------------ actions -------------------------------- *)

\* the caller calls lindos_process_message(message)
ProcessMessage ==
    /\ Cardinality(live) < MaxBufs
    /\ \E p \in LibAddrs \ live :
         LET c == lindos_process_message(message, p)
         IN  /\ live' = live \cup ({c.ptr} \ {NULL})
             /\ owned' = owned \cup ({c.ptr} \ {NULL})
             /\ ret' = [op |-> "process_message", arg |-> message,
                        success |-> FALSE, error_code |-> 0,
                        data |-> c.ptr, text |-> c.text]
    /\ UNCHANGED <<message, DEBUG_ENABLED, callerLive, probe>>

\* the caller calls lindos_process_message_safe(message)
ProcessMessageSafe ==
    /\ Cardinality(live) < MaxBufs
    /\ \E p \in LibAddrs \ live :
         LET r == lindos_process_message_safe(message, p)
         IN  /\ live' = live \cup ({r.data} \ {NULL})
             /\ owned' = owned \cup ({r.data} \ {NULL})
             /\ ret' = [op |-> "process_message_safe", arg |-> message,
                        success |-> r.success, error_code |-> r.error_code,
                        data |-> r.data, text |-> r.text]
    /\ UNCHANGED <<message, DEBUG_ENABLED, callerLive, probe>>

\* the caller calls lindos_validate_message(message)
ValidateMessage ==
    /\ ret' = [op |-> "validate_message", arg |-> message, success |-> FALSE,
               error_code |-> lindos_validate_message(message),
               data |-> NULL, text |-> <<>>]
    /\ UNCHANGED <<message, DEBUG_ENABLED, live, callerLive, owned, probe>>

\* the caller calls lindos_error_message(code)
ErrorMessage ==
    /\ Cardinality(live) < MaxBufs
    /\ \E code \in CodeArgs, p \in LibAddrs \ live :
         LET c == lindos_error_message(code, p)
         IN  /\ live' = live \cup ({c.ptr} \ {NULL})
             /\ owned' = owned \cup ({c.ptr} \ {NULL})
             /\ ret' = [op |-> "error_message", arg |-> code, success |-> FALSE,
                        error_code |-> 0, data |-> c.ptr, text |-> c.text]
    /\ UNCHANGED <<message, DEBUG_ENABLED, callerLive, probe>>

\* the caller calls lindos_string_free on null or on a buffer it holds
StringFree ==
    /\ \E ptr \in owned \cup {NULL} :
         /\ live' = lindos_string_free(live, ptr)
         /\ owned' = owned \ {ptr}
         /\ ret' = [op |-> "string_free", arg |-> ptr, success |-> FALSE,
                    error_code |-> 0, data |-> NULL, text |-> <<>>]
    /\ UNCHANGED <<message, DEBUG_ENABLED, callerLive, probe>>

\* the caller calls lindos_result_free on an envelope whose data is null or
\* a buffer it holds
ResultFree ==
    /\ \E data \in owned \cup {NULL} :
         /\ live' = lindos_result_free(live, data)
         /\ owned' = owned \ {data}
         /\ ret' = [op |-> "result_free", arg |-> data, success |-> FALSE,
                    error_code |-> 0, data |-> NULL, text |-> <<>>]
    /\ UNCHANGED <<message, DEBUG_ENABLED, callerLive, probe>>

\* the caller calls lindos_set_debug(enabled)
SetDebug ==
    /\ \E enabled \in BOOLEAN :
         /\ DEBUG_ENABLED' = lindos_set_debug(enabled)
         /\ ret' = [op |-> "set_debug", arg |-> enabled, success |-> FALSE,
                    error_code |-> 0, data |-> NULL, text |-> <<>>]
    /\ UNCHANGED <<message, live, callerLive, owned, probe>>

\* the observer remembers the call just made, to compare a later one with it
Remember ==
    /\ probe = NoProbe
    /\ ret.op \in {"process_message", "process_message_safe",
                   "validate_message", "error_message"}
    /\ probe' = [op |-> ret.op, arg |-> ret.arg, success |-> ret.success,
                 error_code |-> ret.error_code, text |-> ret.text,
                 debug |-> DEBUG_ENABLED]
    /\ UNCHANGED <<message, DEBUG_ENABLED, live, callerLive, owned, ret>>

Next ==
    \/ ProcessMessage
    \/ ProcessMessageSafe
    \/ ValidateMessage
    \/ ErrorMessage
    \/ StringFree
    \/ ResultFree
    \/ SetDebug

\* any sequence of calls on one caller message
Spec == Init /\ [][Next]_vars

InitHistory == Init /\ Len(message.bytes) <= HistoryRuns

NextHistory == Next \/ Remember

\* any sequence of calls, one of which is remembered
SpecHistory == InitHistory /\ [][NextHistory]_vars

(* ------------------------------ claims --------------------------------- *)

\* the caller's message is a non-null handle to well-formed text
WellFormed == safe_str_from_ptr(message).ok

\* the caller's message is empty or holds whitespace only, so that its
\* whitespace-trimmed form is empty
Blank == \A i \in 1..Len(message.bytes) : message.bytes[i].ch = " "

\* "Error: ", which each user-facing failure message starts with
ERROR_PREFIX == Str(<<"E", "r", "r", "o", "r", ":", " ">>)

\* C1 (as claimed): lindos_validate_message returns, for every handle, the
\* error_code lindos_process_message_safe returns for the same handle.
C1_ValidateAgreesWithChecked ==
    ret.op = "validate_message" =>
        ret.error_code = lindos_process_message_safe(message, InputAddr).error_code

C4_BlankGreeted ==
    (ret.op = "process_message_safe" /\ WellFormed /\ Blank)
    => (ret.success /\ ret.error_code = 0 /\ ret.text = GREETING)

C4_Witness ==
    /\ ret.op = "process_message_safe" /\ WellFormed /\ Blank
    /\ str_len(message.bytes) > MAX_LEN
    /\ ret.text = GREETING

\* C5 (as claimed): the text of every failure envelope is the text
\* lindos_error_message returns for the envelope's error_code, and a null
\* handle gives code 1.
C5_Original ==
    (ret.op = "process_message_safe" /\ ~ret.success)
    => (/\ ret.text = lindos_error_message(ret.error_code, ret.data).text
        /\ (message.ptr = NULL => ret.error_code = 1))

\* C5 (amended): the text of every failure envelope is "Error: " followed
\* by the text lindos_error_message returns for the envelope's error_code,
\* and a null handle gives code 1.
C5_FailureTextIsPrefixedCatalog ==
    (ret.op = "process_message_safe" /\ ~ret.success)
    => (/\ ret.text = push_str(ERROR_PREFIX,
                               lindos_error_message(ret.error_code, ret.data).text)
        /\ (message.ptr = NULL => ret.error_code = 1))

C5_Witness ==
    /\ ret.op = "process_message_safe" /\ ~ret.success
    /\ message.ptr # NULL /\ ret.error_code = 2

\* C6: every envelope lindos_process_message_safe returns has a non-null
\* data pointer to a live library buffer, and success exactly when
\* error_code = 0.
C6_EnvelopeIntegrity ==
    ret.op = "process_message_safe"
    => (/\ ret.data # NULL /\ ret.data \in live
        /\ (ret.success <=> ret.error_code = 0))

C6_Witness ==
    ret.op = "process_message_safe" /\ ~ret.success /\ ret.data \in live

\* C7: for every handle lindos_process_message returns a non-null buffer
\* whose text is the data text of the envelope lindos_process_message_safe
\* returns for the same handle.
C7_LegacyAgreesWithChecked ==
    ret.op = "process_message"
    => (/\ ret.data # NULL
        /\ ret.text = lindos_process_message_safe(message, ret.data).text)

C7_Witness ==
    /\ ret.op = "process_message" /\ WellFormed
    /\ str_len(message.bytes) > MAX_LEN /\ ~Blank

\* C8: lindos_process_message, lindos_process_message_safe and
\* lindos_error_message each add exactly one new live library buffer (the
\* one returned); lindos_validate_message, lindos_set_debug and
\* lindos_string_free(null) (and lindos_result_free of null data) leave the
\* live buffers unchanged;
\* lindos_string_free and lindos_result_free on a live buffer remove exactly
\* that buffer; no call frees the caller's message; and when the caller has
\* released everything it was handed, no library buffer is live.
C8_Step ==
    /\ ret'.op \in {"process_message", "process_message_safe", "error_message"}
         => /\ ret'.data \notin live
            /\ live' = live \cup {ret'.data}
            /\ Cardinality(live') = Cardinality(live) + 1
    /\ ret'.op \in {"validate_message", "set_debug"} => live' = live
    /\ (ret'.op \in {"string_free", "result_free"} /\ ret'.arg = NULL)
         => live' = live
    /\ (ret'.op \in {"string_free", "result_free"} /\ ret'.arg \in live)
         => (live' = live \ {ret'.arg} /\ live' # live)
    /\ callerLive' = callerLive
    /\ (owned' = {} => live' = {})

C9_EmptyMessageUnreachable ==
    ret.op \in {"process_message_safe", "validate_message"}
    => ret.error_code \in {0, 1, 2, 4}

C9_Witness ==
    ret.op = "process_message_safe" /\ WellFormed /\ Blank /\ ret.error_code = 0

\* C10: a call of lindos_process_message, lindos_process_message_safe,
\* lindos_validate_message or lindos_error_message returns the same code,
\* flag and text as any earlier call of the same entry point with the same
\* argument, whatever was called in between and whatever DEBUG_ENABLED was;
\* and only lindos_set_debug changes DEBUG_ENABLED, to its argument.
C10_SameResult ==
    (probe.op = ret.op /\ probe.arg = ret.arg)
    => (/\ probe.success = ret.success
        /\ probe.error_code = ret.error_code
        /\ probe.text = ret.text)

C10_FlagStep ==
    /\ ret'.op = "set_debug" => DEBUG_ENABLED' = ret'.arg
    /\ ret'.op # "set_debug" => DEBUG_ENABLED' = DEBUG_ENABLED

\* C10: equal calls return equal results in every state (C10_SameResult),
\* and every step treats DEBUG_ENABLED as C10_FlagStep states.
C10_CallIndependence == []C10_SameResult /\ [][C10_FlagStep]_vars

C10_Witness ==
    /\ probe.op = "process_message_safe" /\ ret.op = "process_message_safe"
    /\ probe.debug # DEBUG_ENABLED
    /\ WellFormed /\ ~Blank /\ ret.success

====
